---- MODULE Spec2Model ----
(***************************************************************************)
(* A model of the gocog decoder (src/crs.go, the last revision of the      *)
(* decoder: newDecoder, parseIFD, readIFD, colorModel, decode,             *)
(* DecodeLevelSubImage, DecodeLevel, Decode).                              *)
(*                                                                         *)
(* The input file is a sequence of bytes.  Byte offset o of the file is    *)
(* element o+1 of the sequence.  The files the model explores are written  *)
(* by a small encoder (MkFile) from a record of parameters `in`; the       *)
(* decoder never looks at `in`, only at the bytes.                         *)
(***************************************************************************)
EXTENDS Integers, Sequences, FiniteSets, TLC

\* ------------------------------------------------------------------------
\* Bounds of the explored inputs
\* ------------------------------------------------------------------------
MaxDim == 3
MaxTile == 3
MaxIFD == 2
MaxDsc == 3
MaxPN == 6
MaxParams == 2

\* ------------------------------------------------------------------------
\* Program constants
\* ------------------------------------------------------------------------
ifdLen == 12
dtShort == 3
dtLong == 4

cNewSubfileType == 254
cImageWidth == 256
cImageLength == 257
cBitsPerSample == 258
cCompression == 259
cPhotometricInterpr == 262
cSamplesPerPixel == 277
cTileWidth == 322
cTileLength == 323
cTileOffsets == 324
cTileByteCounts == 325
cSampleFormat == 339
tPredictor == 317
tModelTransformation == 34264
dtByte == 1
dtDouble == 12

cNone == 1
cLZW == 5
cDeflate == 8
cPackBits == 32773
cDeflateOld == 32946

pBlackIsZero == 1
uintSample == 1
sintSample == 2

leHeader == <<73, 73, 42, 0>>
beHeader == <<77, 77, 0, 42>>

\* lengths[datatype]: element size of an IFD datatype (BYTE, ASCII, SHORT, LONG, ...)
lengths(dt) == CASE dt = 1 -> 1 [] dt = 2 -> 1 [] dt = 3 -> 2 [] dt = 4 -> 4
                 [] dt = 5 -> 8 [] dt = 12 -> 8 [] OTHER -> 0

Nil == [nil |-> TRUE]

minInt(a, b) == IF a <= b THEN a ELSE b

\* the Go slice s[a:b] of a byte sequence (offsets from 0, b exclusive)
Slice(s, a, b) == SubSeq(s, a + 1, b)

\* binary.ByteOrder.Uint16 / Uint32 of the first bytes of p
Uint16(bo, p) == IF bo = "LE" THEN p[1] + 256 * p[2] ELSE 256 * p[1] + p[2]

Uint32(bo, p) ==
    IF bo = "LE" THEN p[1] + 256 * p[2] + 65536 * p[3] + 16777216 * p[4]
    ELSE 16777216 * p[1] + 65536 * p[2] + 256 * p[3] + p[4]

\* ------------------------------------------------------------------------
\* The encoder that writes the explored files
\* ------------------------------------------------------------------------
Put16(bo, v) ==
    IF bo = "LE" THEN <<v % 256, (v \div 256) % 256>>
    ELSE <<(v \div 256) % 256, v % 256>>

Put32(bo, v) ==
    IF bo = "LE"
    THEN <<v % 256, (v \div 256) % 256, (v \div 65536) % 256, (v \div 16777216) % 256>>
    ELSE <<(v \div 16777216) % 256, (v \div 65536) % 256, (v \div 256) % 256, v % 256>>

RECURSIVE Flatten(_)
Flatten(ss) == IF ss = <<>> THEN <<>> ELSE Head(ss) \o Flatten(Tail(ss))

CeilDiv(a, b) == (a + b - 1) \div b

\* bytes of one stored sample
SampleBytes(in) == IF in.bps = 16 THEN 2 ELSE 1

SampleMod(in) == IF in.bps = 16 THEN 65536 ELSE 256

\* the raster the file encodes: the sample value of pixel (x, y).  The two bytes of
\* a 16-bit value differ, and the values of a `hi` raster have the sign bit set.
RasterBase(in) ==
    IF in.bps = 16 THEN (IF in.hi THEN 33027 ELSE 258) ELSE (IF in.hi THEN 200 ELSE 1)

Raster(in, x, y) == (RasterBase(in) + x + 16 * y) % SampleMod(in)

\* the value the destination image holds for a stored sample value v
AsPixel(in, v) ==
    IF in.sf = sintSample /\ v >= SampleMod(in) \div 2 THEN v - SampleMod(in) ELSE v

\* number of tiles of the grid
GridAcross(in) == IF in.TW = 0 \/ in.W = 0 THEN 1 ELSE CeilDiv(in.W, in.TW)

GridDown(in) == IF in.TW = 0 \/ in.TH = 0 \/ in.H = 0 THEN 1 ELSE CeilDiv(in.H, in.TH)

GridTiles(in) == GridAcross(in) * GridDown(in)

\* the sample written at position (tx, ty) of tile (ti, tj): the raster value, or its
\* difference from the sample to its left when the file is written with Predictor 2
StoredSample(in, ti, tj, tx, ty) ==
    LET x == ti * in.TW + tx
        y == tj * in.TH + ty
    IN  IF in.pred = 2 /\ tx > 0
        THEN (Raster(in, x, y) - Raster(in, x - 1, y) + SampleMod(in)) % SampleMod(in)
        ELSE Raster(in, x, y)

\* the uncompressed bytes of tile k, samples in the file's byte order
TileRaw(in, k) ==
    LET ti == k % GridAcross(in)
        tj == k \div GridAcross(in)
        B  == SampleBytes(in)
    IN  [n \in 1..(in.TW * in.TH * B) |->
            LET s == (n - 1) \div B
                v == StoredSample(in, ti, tj, s % in.TW, s \div in.TW)
            IN  IF B = 2 THEN Put16(in.bo, v)[((n - 1) % B) + 1] ELSE v]

ZlibMagic == 120
LZWMagic == 128

\* the stored form of a tile under the file's Compression code
Compress(c, raw) ==
    CASE c \in {6, 7, cDeflate, cDeflateOld} -> <<ZlibMagic>> \o raw
      [] c = cLZW -> <<LZWMagic>> \o raw
      [] c = cPackBits -> IF raw = <<>> THEN raw ELSE <<Len(raw) - 1>> \o raw
      [] OTHER -> raw

TileStored(in, k) == Compress(in.comp, TileRaw(in, k))

\* all tiles have the same stored length
TileLen(in) == Len(TileStored(in, 0))

DataOff == Len(leHeader) + 4

\* number of entries of the two tile tables
TableLen(in) == IF GridTiles(in) + in.dlen < 0 THEN 0 ELSE GridTiles(in) + in.dlen

TileOffT(in) == DataOff + GridTiles(in) * TileLen(in)

TileCntT(in) == TileOffT(in) + 4 * TableLen(in)

\* the values of a BitsPerSample entry that does not fit in its 4 bytes are
\* stored after the two tile tables
BpsOff(in) == TileCntT(in) + 4 * TableLen(in)

BpsBytes(in) ==
    IF 2 * in.bpsN > 4 THEN Flatten([k \in 1..in.bpsN |-> Put16(in.bo, in.bps)]) ELSE <<>>

FirstIFD(in) == BpsOff(in) + Len(BpsBytes(in))

\* an offset past the end of every file written
FarOff(in) == FirstIFD(in) + 4096

\* table entry k: the extra entries of an over-long table point at tile 0
TileOffsetOf(in, k) == IF k < GridTiles(in) THEN DataOff + k * TileLen(in) ELSE DataOff

\* the byte count of tile k: a `short` file announces no bytes for its last tile
TileCountOf(in, k) ==
    IF in.short /\ k = GridTiles(in) - 1 THEN 0 ELSE TileLen(in)

TileOffsetsBytes(in) ==
    Flatten([k \in 1..TableLen(in) |-> Put32(in.bo, TileOffsetOf(in, k - 1))])

TileCountsBytes(in) ==
    Flatten([k \in 1..TableLen(in) |-> Put32(in.bo, TileCountOf(in, k - 1))])

Entry(bo, tag, dt, count, val) == Put16(bo, tag) \o Put16(bo, dt) \o Put32(bo, count) \o val

ShortVal(bo, v) == Put16(bo, v) \o <<0, 0>>

\* a tile table entry: the value inline when it fits in 4 bytes, else its offset
TableEntry(in, tag, off, first) ==
    Entry(in.bo, tag, dtLong, TableLen(in),
          IF TableLen(in) = 1 THEN Put32(in.bo, first) ELSE Put32(in.bo, off))

\* the BitsPerSample entry: bpsN values, inline when they fit in 4 bytes
BpsEntry(in) ==
    Entry(in.bo, cBitsPerSample, dtShort, in.bpsN,
          IF in.bpsN = 1 THEN ShortVal(in.bo, in.bps)
          ELSE IF in.bpsN = 2 THEN Put16(in.bo, in.bps) \o Put16(in.bo, in.bps)
          ELSE Put32(in.bo, BpsOff(in)))

\* a ModelTransformation entry: 16 DOUBLEs at an offset
ModelTransformationEntry(in) == Entry(in.bo, tModelTransformation, dtDouble, 16, Put32(in.bo, DataOff))

\* the entry e as written: a file with in.bad = <<tag, datatype, count>>
\* announces that datatype and count in its entry for that tag
Announce(in, e) ==
    IF in.bad # <<>> /\ Uint16(in.bo, SubSeq(e, 1, 2)) = in.bad[1]
    THEN Put16(in.bo, in.bad[1]) \o Put16(in.bo, in.bad[2]) \o Put32(in.bo, in.bad[3])
         \o SubSeq(e, 9, 12)
    ELSE e

\* the entries of IFD number n (from 1), in ascending tag order
WrittenEntries(in, n) ==
    LET bo == in.bo
    IN  <<Entry(bo, cNewSubfileType, dtLong, 1, Put32(bo, n - 1)),
          Entry(bo, cImageWidth, dtLong, 1, Put32(bo, in.W)),
          Entry(bo, cImageLength, dtShort, 1, ShortVal(bo, in.H)),
          BpsEntry(in),
          Entry(bo, cCompression, dtShort, 1, ShortVal(bo, in.comp)),
          Entry(bo, cPhotometricInterpr, dtShort, 1, ShortVal(bo, in.photo)),
          Entry(bo, cSamplesPerPixel, dtShort, 1, ShortVal(bo, in.spp))>>
        \o (IF in.pred = 0 THEN <<>>
            ELSE <<Entry(bo, tPredictor, dtShort, 1, ShortVal(bo, in.pred))>>)
        \o <<Entry(bo, cTileWidth, dtShort, 1, ShortVal(bo, in.TW)),
             Entry(bo, cTileLength, dtLong, 1, Put32(bo, in.TH)),
             TableEntry(in, cTileOffsets, IF in.far THEN FarOff(in) ELSE TileOffT(in),
                        TileOffsetOf(in, 0)),
             TableEntry(in, cTileByteCounts, TileCntT(in), TileCountOf(in, 0))>>
        \o (IF in.sf = 0 THEN <<>>
            ELSE <<Entry(bo, cSampleFormat, dtShort, 1, ShortVal(bo, in.sf))>>)
        \o (IF in.mt THEN <<ModelTransformationEntry(in)>> ELSE <<>>)

\* a file written with in.bpsLast has its BitsPerSample entry, the fourth, moved
\* to the end of the IFD
IFDEntries(in, n) ==
    LET w == [k \in 1..Len(WrittenEntries(in, n)) |-> Announce(in, WrittenEntries(in, n)[k])]
    IN  IF in.bpsLast THEN SubSeq(w, 1, 3) \o SubSeq(w, 5, Len(w)) \o <<w[4]>> ELSE w

IFDSize(in) == 2 + ifdLen * Len(IFDEntries(in, 1)) + 4

IFDOff(in, n) == FirstIFD(in) + (n - 1) * IFDSize(in)

\* the next-IFD offset written after IFD n: the following IFD, 0 after the last one,
\* or the first IFD again when the chain is written cyclic
NextOff(in, n) ==
    IF n < in.nifd THEN IFDOff(in, n + 1)
    ELSE IF in.cyc THEN IFDOff(in, 1) ELSE 0

IFDBytes(in, n) ==
    Put16(in.bo, Len(IFDEntries(in, n))) \o Flatten(IFDEntries(in, n))
        \o Put32(in.bo, NextOff(in, n))

\* the first 4 bytes: the byte-order mark and 42 in that order, or a header with
\* another number, or one whose 42 is written in the other byte order
HeaderBytes(in) ==
    (IF ~in.magic THEN <<73, 73, 43, 0>>
     ELSE IF in.mix THEN (IF in.bo = "LE" THEN <<73, 73, 0, 42>> ELSE <<77, 77, 42, 0>>)
     ELSE IF in.bo = "LE" THEN leHeader ELSE beHeader)
    \o Put32(in.bo, IF in.nifd = 0 THEN 0 ELSE FirstIFD(in))

WholeFile(in) ==
    HeaderBytes(in)
    \o Flatten([k \in 1..GridTiles(in) |-> TileStored(in, k - 1)])
    \o TileOffsetsBytes(in)
    \o TileCountsBytes(in)
    \o BpsBytes(in)
    \o Flatten([n \in 1..in.nifd |-> IFDBytes(in, n)])

\* the input: the whole file, or only its first in.cut bytes
MkFile(in) == IF in.cut < 0 THEN WholeFile(in) ELSE SubSeq(WholeFile(in), 1, in.cut)

\* ------------------------------------------------------------------------
\* The random-access reader
\* ------------------------------------------------------------------------
\* io.ReaderAt.ReadAt(p, off) with len(p) = n over the bytes `view`: the bytes
\* obtained (p keeps its zeros where nothing was read) and whether an error is
\* returned (a read that ends before n bytes returns io.EOF)
ReadAt(view, off, n) ==
    LET end == minInt(off + n, Len(view))
        got == IF off < end THEN Slice(view, off, end) ELSE <<>>
    IN  [err |-> off + n > Len(view),
         p   |-> got \o [k \in 1..(n - Len(got)) |-> 0]]

\* newReaderAt: a byte-addressable input is used as it is; any other stream is
\* wrapped in a buffer that reads the stream to its end on the first touch.
\* pos is the number of bytes already consumed from the stream.
newReaderAt(bytes, seekable, pos) ==
    IF seekable THEN [isBuffer |-> FALSE, view |-> bytes, pos |-> pos]
    ELSE [isBuffer |-> TRUE,
          view |-> IF pos < Len(bytes) THEN Slice(bytes, pos, Len(bytes)) ELSE <<>>,
          pos |-> Len(bytes)]

\* ------------------------------------------------------------------------
\* newDecoder
\* ------------------------------------------------------------------------
Err(kind, msg) == [st |-> kind, msg |-> msg]

Ok == [st |-> "ok", msg |-> ""]

\* the decoder value of a failed newDecoder (decoder{})
NoDecoder == [ra |-> Nil, bo |-> "", dsc |-> <<>>, buf |-> <<>>]

\* a decoder that looks at the byte-order mark alone
newDecoderMarkOnly(bytes, seekable, pos) ==
    LET ra == newReaderAt(bytes, seekable, pos)
        r  == ReadAt(ra.view, 0, 8)
    IN  IF r.err \/ Slice(r.p, 0, 2) \notin {Slice(leHeader, 0, 2), Slice(beHeader, 0, 2)}
        THEN [res |-> Err("FormatError", "malformed header"), d |-> NoDecoder, pos |-> ra.pos]
        ELSE [res |-> Ok,
              d |-> [ra |-> ra, bo |-> IF Slice(r.p, 0, 2) = Slice(leHeader, 0, 2)
                                       THEN "LE" ELSE "BE",
                     dsc |-> <<>>, buf |-> <<>>],
              pos |-> ra.pos]

newDecoder(bytes, seekable, pos) ==
    LET ra == newReaderAt(bytes, seekable, pos)
        r  == ReadAt(ra.view, 0, 8)
    IN  IF r.err
        THEN [res |-> Err("FormatError", "malformed header"), d |-> NoDecoder, pos |-> ra.pos]
        ELSE IF Slice(r.p, 0, 4) = leHeader
        THEN [res |-> Ok, d |-> [ra |-> ra, bo |-> "LE", dsc |-> <<>>, buf |-> <<>>],
              pos |-> ra.pos]
        ELSE IF Slice(r.p, 0, 4) = beHeader
        THEN [res |-> Ok, d |-> [ra |-> ra, bo |-> "BE", dsc |-> <<>>, buf |-> <<>>],
              pos |-> ra.pos]
        ELSE [res |-> Err("FormatError", "malformed header"), d |-> NoDecoder, pos |-> ra.pos]

\* ------------------------------------------------------------------------
\* parseIFD
\* ------------------------------------------------------------------------
\* ImgDesc{}
ZeroImgDesc ==
    [NewSubfileType |-> 0, ImageWidth |-> 0, ImageHeight |-> 0, TileWidth |-> 0,
     TileHeight |-> 0, PhotometricInterpr |-> 0, Compression |-> 0,
     SamplesPerPixel |-> 0, BitsPerSample |-> <<>>, SampleFormat |-> <<>>,
     TileOffsets |-> <<>>, TileByteCounts |-> <<>>]

EntryOk(desc) == [st |-> "ok", msg |-> "", desc |-> desc]

EntryErr(kind, msg, desc) == [st |-> kind, msg |-> msg, desc |-> desc]

\* ImageWidth, ImageLength, TileWidth, TileLength: one SHORT or one LONG
DimEntry(bo, ifd, i, datatype, count, desc, field, msgCount, msgType) ==
    IF count # 1 THEN EntryErr("FormatError", msgCount, desc)
    ELSE IF datatype = dtShort
    THEN EntryOk([desc EXCEPT ![field] = Uint16(bo, Slice(ifd, i + 8, i + 10))])
    ELSE IF datatype = dtLong
    THEN EntryOk([desc EXCEPT ![field] = Uint32(bo, Slice(ifd, i + 8, i + 12))])
    ELSE EntryErr("FormatError", msgType, desc)

\* a check of the datatype alone
ShortEntryAnyCount(bo, ifd, i, datatype, count, desc, field, msg) ==
    IF datatype # dtShort THEN EntryErr("FormatError", msg, desc)
    ELSE EntryOk([desc EXCEPT ![field] = Uint16(bo, Slice(ifd, i + 8, i + 10))])

\* Compression, PhotometricInterpr, SamplesPerPixel: one SHORT
ShortEntry(bo, ifd, i, datatype, count, desc, field, msg) ==
    IF datatype # dtShort \/ count # 1 THEN EntryErr("FormatError", msg, desc)
    ELSE EntryOk([desc EXCEPT ![field] = Uint16(bo, Slice(ifd, i + 8, i + 10))])

\* 2^30: four times this number is 2^32, which a uint32 holds as 0
TwoTo30 == 1073741824

\* lengths[datatype] * count in uint32 arithmetic, for the counts the model
\* holds (below 2^31) and products below 2^31 after the wrap
Mul32(a, b) == IF a >= 4 THEN a * (b % (TwoTo30 \div (a \div 4))) ELSE a * b

\* TileOffsets, TileByteCounts: `count` LONGs, inline or at the offset the entry holds;
\* the result of the ReadAt that fetches them is not looked at.  raw[4*i : 4*(i+1)]
\* may reach past len(raw) up to cap(raw): an inline raw is a slice of ifd, whose
\* capacity runs to the end of the IFD buffer.  got is the number of bytes obtained
\* for the value and read the number of elements read from raw before the loop
\* ends or panics.
TableEntryValues(view, bo, ifd, i, datatype, count) ==
    LET datalen == Mul32(lengths(datatype), count)
        raw == IF datalen > 4
               THEN ReadAt(view, Uint32(bo, Slice(ifd, i + 8, i + 12)), datalen).p
               ELSE Slice(ifd, i + 8, i + 8 + datalen)
        reach == IF datalen > 4 THEN raw ELSE Slice(ifd, i + 8, Len(ifd))
    IN  IF count > Len(reach) \div 4
        THEN [panic |-> TRUE, data |-> <<>>, got |-> Len(raw), read |-> Len(reach) \div 4]
        ELSE [panic |-> FALSE,
              data |-> [k \in 1..count |-> Uint32(bo, Slice(reach, 4 * (k - 1), 4 * k))],
              got |-> Len(raw), read |-> count]

\* the body of the switch on the tag of the entry at byte i of the IFD buffer
parseEntry(view, bo, ifd, i, desc) ==
    LET tag      == Uint16(bo, Slice(ifd, i, i + 2))
        datatype == Uint16(bo, Slice(ifd, i + 2, i + 4))
        count    == Uint32(bo, Slice(ifd, i + 4, i + 8))
    IN  CASE tag = cNewSubfileType ->
               IF datatype # dtLong \/ count # 1
               THEN EntryErr("FormatError", "1unexpected value found on IFD", desc)
               ELSE EntryOk([desc EXCEPT
                        !.NewSubfileType = Uint32(bo, Slice(ifd, i + 8, i + 12))])
          [] tag = cImageWidth ->
               DimEntry(bo, ifd, i, datatype, count, desc, "ImageWidth",
                        "2unexpected value found on IFD", "3unexpected value found on IFD")
          [] tag = cImageLength ->
               DimEntry(bo, ifd, i, datatype, count, desc, "ImageHeight",
                        "4unexpected value found on IFD", "5unexpected value found on IFD")
          [] tag = cBitsPerSample ->
               IF datatype # dtShort
               THEN EntryErr("FormatError", "6unexpected value found on IFD", desc)
               \* the debugging output reads ifd[i+12 : i+16], bytes of the next entry
               ELSE IF i + 16 > Len(ifd)
               THEN EntryErr("panic", "slice bounds out of range", desc)
               ELSE EntryOk([desc EXCEPT
                        !.BitsPerSample = <<Uint16(bo, Slice(ifd, i + 8, i + 10))>>])
          [] tag = cCompression ->
               ShortEntry(bo, ifd, i, datatype, count, desc, "Compression",
                          "7unexpected value found on IFD")
          [] tag = cPhotometricInterpr ->
               ShortEntry(bo, ifd, i, datatype, count, desc, "PhotometricInterpr",
                          "8unexpected value found on IFD")
          [] tag = cSamplesPerPixel ->
               ShortEntry(bo, ifd, i, datatype, count, desc, "SamplesPerPixel",
                          "9unexpected value found on IFD")
          [] tag = cSampleFormat ->
               IF datatype # dtShort
               THEN EntryErr("FormatError", "10unexpected value found on IFD", desc)
               ELSE EntryOk([desc EXCEPT
                        !.SampleFormat = <<Uint16(bo, Slice(ifd, i + 8, i + 10))>>])
          [] tag = cTileWidth ->
               DimEntry(bo, ifd, i, datatype, count, desc, "TileWidth",
                        "11unexpected value found on IFD", "12unexpected value found on IFD")
          [] tag = cTileLength ->
               DimEntry(bo, ifd, i, datatype, count, desc, "TileHeight",
                        "13unexpected value found on IFD", "14unexpected value found on IFD")
          [] tag \in {cTileOffsets, cTileByteCounts} ->
               IF datatype # dtLong
               THEN EntryErr("FormatError", "15unexpected value found on IFD", desc)
               ELSE LET t == TableEntryValues(view, bo, ifd, i, datatype, count)
                    IN  IF t.panic
                        THEN EntryErr("panic", "slice bounds out of range", desc)
                        ELSE IF tag = cTileOffsets
                        THEN EntryOk([desc EXCEPT !.TileOffsets = t.data])
                        ELSE EntryOk([desc EXCEPT !.TileByteCounts = t.data])
          [] OTHER -> EntryOk(desc)

\* for i := 0; i < len(ifd); i += ifdLen
RECURSIVE parseEntries(_, _, _, _, _)
parseEntries(view, bo, ifd, i, desc) ==
    IF i >= Len(ifd) THEN EntryOk(desc)
    ELSE LET r == parseEntry(view, bo, ifd, i, desc)
         IN  IF r.st # "ok" THEN r ELSE parseEntries(view, bo, ifd, i + ifdLen, r.desc)

\* a walk that puts each new ImgDesc in front of the earlier ones
prependDesc(dsc, desc) == <<desc>> \o dsc

\* d.dsc = append(d.dsc, imgDesc)
appendDesc(dsc, desc) == Append(dsc, desc)

\* parseIFD(ifdOffset): the outcome, the decoder's list of ImgDesc after the call
\* and the offset of the next IFD
parseIFD(d, ifdOffset) ==
    LET view == d.ra.view
        r1   == ReadAt(view, ifdOffset, 2)
        numItems == Uint16(d.bo, r1.p)
        r2   == ReadAt(view, ifdOffset + 2, ifdLen * numItems)
        es   == parseEntries(view, d.bo, r2.p, 0, ZeroImgDesc)
        nextIFDOffset == ifdOffset + 2 + numItems * 12
        r3   == ReadAt(view, nextIFDOffset, 4)
    IN  IF r1.err \/ r2.err
        THEN [res |-> Err("FormatError", "error reading IFD"), dsc |-> d.dsc, next |-> 0]
        ELSE IF es.st # "ok"
        THEN [res |-> Err(es.st, es.msg), dsc |-> d.dsc, next |-> 0]
        ELSE IF r3.err
        THEN [res |-> Err("FormatError", "error reading IFD"),
              dsc |-> appendDesc(d.dsc, es.desc), next |-> 0]
        ELSE [res |-> Ok, dsc |-> appendDesc(d.dsc, es.desc), next |-> Uint32(d.bo, r3.p)]

\* ------------------------------------------------------------------------
\* colorModel, decode
\* ------------------------------------------------------------------------
\* colorModel(level): the name of the color model, "nil" when the switch falls
\* through, "panic" when SampleFormat or BitsPerSample is empty and indexed
colorModel(cfg) ==
    IF cfg.PhotometricInterpr # pBlackIsZero THEN "nil"
    ELSE IF cfg.SampleFormat = <<>> THEN "panic"
    ELSE IF cfg.SampleFormat[1] = uintSample
    THEN (IF cfg.BitsPerSample = <<>> THEN "panic"
          ELSE IF cfg.BitsPerSample[1] = 8 THEN "GrayU8"
          ELSE IF cfg.BitsPerSample[1] = 16 THEN "GrayU16" ELSE "nil")
    ELSE IF cfg.SampleFormat[1] = sintSample
    THEN (IF cfg.BitsPerSample = <<>> THEN "panic"
          ELSE IF cfg.BitsPerSample[1] = 8 THEN "GrayS8"
          ELSE IF cfg.BitsPerSample[1] = 16 THEN "GrayS16" ELSE "nil")
    ELSE "nil"

\* image.Rectangle
Rect(x0, y0, x1, y1) == [x0 |-> x0, y0 |-> y0, x1 |-> x1, y1 |-> y1]

ZR == Rect(0, 0, 0, 0)

Empty(r) == r.x0 >= r.x1 \/ r.y0 >= r.y1

Intersect(r, s) ==
    LET t == Rect(IF r.x0 < s.x0 THEN s.x0 ELSE r.x0, IF r.y0 < s.y0 THEN s.y0 ELSE r.y0,
                  IF r.x1 > s.x1 THEN s.x1 ELSE r.x1, IF r.y1 > s.y1 THEN s.y1 ELSE r.y1)
    IN  IF Empty(t) THEN ZR ELSE t

Points(r) == (r.x0 .. (r.x1 - 1)) \X (r.y0 .. (r.y1 - 1))

\* scimage.NewGrayU8 and its siblings: a zeroed image with the given bounds
NewImage(variant, r) == [variant |-> variant, rect |-> r, pix |-> [pt \in Points(r) |-> 0]]

\* SetGrayU8 and its siblings store nothing for a point outside the image bounds
SetPixel(pix, r, x, y, v) ==
    IF <<x, y>> \in Points(r) THEN [pix EXCEPT ![<<x, y>>] = v] ELSE pix

SampleSize(variant) == IF variant \in {"GrayU16", "GrayS16"} THEN 2 ELSE 1

\* the sample decode reads at byte offset off of d.buf
ReadSample(variant, buf, off) ==
    CASE variant = "GrayU8"  -> buf[off + 1]
      [] variant = "GrayS8"  -> IF buf[off + 1] >= 128 THEN buf[off + 1] - 256 ELSE buf[off + 1]
      [] variant = "GrayU16" -> buf[off + 1] * 256 + buf[off + 2]
      [] variant = "GrayS16" ->
            IF buf[off + 1] >= 128 THEN buf[off + 1] * 256 + buf[off + 2] - 65536
            ELSE buf[off + 1] * 256 + buf[off + 2]

\* a test that looks only at the first byte of the sample
NoPixelsFirstByte(buf, off, size) == off >= Len(buf)

\* if off+1 > len(d.buf) (off+2 for the 16-bit variants): return errNoPixels
NoPixels(buf, off, size) == off + size > Len(buf)

\* for x := xmin; x < rMaxX; x++ ; indexing d.buf at or past its length panics
RECURSIVE decodeCols(_, _, _, _, _, _, _)
decodeCols(buf, img, x, y, rMaxX, off, pix) ==
    IF x >= rMaxX THEN [err |-> FALSE, panic |-> FALSE, off |-> off, pix |-> pix]
    ELSE IF NoPixels(buf, off, SampleSize(img.variant))
    THEN [err |-> TRUE, panic |-> FALSE, off |-> off, pix |-> pix]
    ELSE IF off + SampleSize(img.variant) > Len(buf)
    THEN [err |-> FALSE, panic |-> TRUE, off |-> off, pix |-> pix]
    ELSE decodeCols(buf, img, x + 1, y, rMaxX, off + SampleSize(img.variant),
                    SetPixel(pix, img.rect, x, y, ReadSample(img.variant, buf, off)))

\* for y := ymin; y < rMaxY; y++
RECURSIVE decodeRows(_, _, _, _, _, _, _, _, _)
decodeRows(buf, img, xmin, xmax, rMaxX, rMaxY, y, off, pix) ==
    IF y >= rMaxY THEN [err |-> FALSE, panic |-> FALSE, pix |-> pix]
    ELSE LET row == decodeCols(buf, img, xmin, y, rMaxX, off, pix)
             skip == IF rMaxX = img.rect.x1
                     THEN SampleSize(img.variant) * (xmax - img.rect.x1) ELSE 0
         IN  IF row.err \/ row.panic
             THEN [err |-> row.err, panic |-> row.panic, pix |-> row.pix]
             ELSE decodeRows(buf, img, xmin, xmax, rMaxX, rMaxY, y + 1, row.off + skip, row.pix)

\* decode(dst, level, xmin, ymin, xmax, ymax): the outcome and the pixels of dst
decode(buf, cfg, dst, xmin, ymin, xmax, ymax) ==
    LET rMaxX == minInt(xmax, dst.rect.x1)
        rMaxY == minInt(ymax, dst.rect.y1)
    IN  IF cfg.SamplesPerPixel # 1
        THEN [res |-> Err("FormatError", "image data type not implemented"), pix |-> dst.pix]
        ELSE LET r == decodeRows(buf, dst, xmin, xmax, rMaxX, rMaxY, ymin, 0, dst.pix)
             IN  IF r.panic
                 THEN [res |-> Err("panic", "index out of range"), pix |-> r.pix]
                 ELSE IF r.err
                 THEN [res |-> Err("FormatError", "not enough pixel data"), pix |-> r.pix]
                 ELSE [res |-> Ok, pix |-> r.pix]

\* ------------------------------------------------------------------------
\* Fetching and decompressing one tile
\* ------------------------------------------------------------------------
\* zlib.NewReader over the section followed by ioutil.ReadAll
zlibRead(sect) ==
    IF sect = <<>> \/ sect[1] # ZlibMagic THEN [err |-> TRUE, buf |-> <<>>]
    ELSE [err |-> FALSE, buf |-> Tail(sect)]

\* unpackBits: runs of literal bytes (code 0..127) and repeated bytes (code 129..255)
RECURSIVE unpackBits(_)
unpackBits(sect) ==
    IF sect = <<>> THEN [err |-> FALSE, buf |-> <<>>]
    ELSE LET code == sect[1]
         IN  IF code < 128
             THEN IF Len(sect) < code + 2 THEN [err |-> TRUE, buf |-> <<>>]
                  ELSE LET rest == unpackBits(SubSeq(sect, code + 3, Len(sect)))
                       IN  [err |-> rest.err, buf |-> SubSeq(sect, 2, code + 2) \o rest.buf]
             ELSE IF code = 128 THEN unpackBits(Tail(sect))
             ELSE IF Len(sect) < 2 THEN [err |-> TRUE, buf |-> <<>>]
                  ELSE LET rest == unpackBits(SubSeq(sect, 3, Len(sect)))
                       IN  [err |-> rest.err,
                            buf |-> [k \in 1..(257 - code) |-> sect[2]] \o rest.buf]

\* io.NewSectionReader(d.ra, offset, n): the bytes of the section that exist
Section(view, offset, n) ==
    IF offset < minInt(offset + n, Len(view))
    THEN Slice(view, offset, minInt(offset + n, Len(view))) ELSE <<>>

\* the switch on cfg.Compression: the outcome and the new d.buf
fetchTile(ra, Compression, offset, n) ==
    CASE Compression \in {cNone, 0} ->
            \* buffer.Slice and ReadAt both fail when the bytes are not all there
            LET r == ReadAt(ra.view, offset, n)
            IN  IF r.err THEN [res |-> Err("error", "EOF"), buf |-> r.p]
                ELSE [res |-> Ok, buf |-> r.p]
      [] Compression \in {cDeflate, cDeflateOld} ->
            LET z == zlibRead(Section(ra.view, offset, n))
            IN  IF z.err THEN [res |-> Err("error", "zlib"), buf |-> z.buf]
                ELSE [res |-> Ok, buf |-> z.buf]
      [] Compression = cPackBits ->
            LET u == unpackBits(Section(ra.view, offset, n))
            IN  IF u.err THEN [res |-> Err("error", "unexpected EOF"), buf |-> u.buf]
                ELSE [res |-> Ok, buf |-> u.buf]
      [] OTHER -> [res |-> Err("UnsupportedError", "compression value"), buf |-> <<>>]

\* ------------------------------------------------------------------------
\* DecodeLevelSubImage, from cfg := d.dsc[level] to the start of the tile loop
\* ------------------------------------------------------------------------
blocksAcrossOf(cfg) ==
    IF cfg.TileWidth # 0
    THEN (cfg.ImageWidth + cfg.TileWidth - 1) \div cfg.TileWidth ELSE 1

blocksDownOf(cfg) ==
    IF cfg.TileWidth # 0 /\ cfg.TileHeight # 0
    THEN (cfg.ImageHeight + cfg.TileHeight - 1) \div cfg.TileHeight ELSE 1

\* the check of the number of tiles, offsets and counts
InconsistentHeader(cfg) ==
    \/ Len(cfg.TileOffsets) < blocksAcrossOf(cfg) * blocksDownOf(cfg)
    \/ Len(cfg.TileByteCounts) < blocksAcrossOf(cfg) * blocksDownOf(cfg)

subImageSetup(dsc, level, rect) ==
    IF level < 0 \/ level >= Len(dsc)
    THEN [res |-> Err("panic", "index out of range"), img |-> Nil]
    ELSE
    LET cfg     == dsc[level + 1]
        imgRect == Intersect(Rect(0, 0, cfg.ImageWidth, cfg.ImageHeight), rect)
        cm      == colorModel(cfg)
    IN  IF cfg.ImageWidth = 0 \/ cfg.ImageHeight = 0
        THEN [res |-> Err("FormatError", "unexpected image dimensions"), img |-> Nil]
        ELSE IF InconsistentHeader(cfg)
        THEN [res |-> Err("FormatError", "inconsistent header"), img |-> Nil]
        ELSE IF cfg.BitsPerSample = <<>>
        THEN [res |-> Err("panic", "index out of range"), img |-> Nil]
        ELSE IF cfg.BitsPerSample[1] = 0
        THEN [res |-> Err("FormatError", "BitsPerSample must not be 0"), img |-> Nil]
        ELSE IF cfg.BitsPerSample[1] \notin {8, 16}
        THEN [res |-> Err("UnsupportedError", "BitsPerSample"), img |-> Nil]
        ELSE IF Empty(imgRect)
        THEN [res |-> Err("error", "The rectangle provided does not intersect the image"),
              img |-> Nil]
        ELSE IF cm = "panic"
        THEN [res |-> Err("panic", "index out of range"), img |-> Nil]
        ELSE IF cm = "nil"
        THEN [res |-> Err("FormatError", "image data type not implemented"), img |-> Nil]
        ELSE IF cfg.TileWidth = 0
        THEN [res |-> Err("panic", "integer divide by zero"), img |-> NewImage(cm, imgRect)]
        ELSE [res |-> Ok, img |-> NewImage(cm, imgRect)]

\* the bounds of the two tile loops
FirstI(cfg, r) == r.x0 \div cfg.TileWidth
LastI(cfg, r)  == r.x1 \div cfg.TileWidth
FirstJ(cfg, r) == r.y0 \div cfg.TileWidth
LastJ(cfg, r)  == r.y1 \div cfg.TileWidth

\* ------------------------------------------------------------------------
\* The explored inputs
\* ------------------------------------------------------------------------
Base ==
    [bo |-> "LE", magic |-> TRUE, W |-> 3, H |-> 1, TW |-> 2, TH |-> 2, bps |-> 8,
     sf |-> 1, pred |-> 1, comp |-> 1, spp |-> 1, photo |-> 1, nifd |-> 1,
     cyc |-> FALSE, dlen |-> 0, short |-> FALSE, hi |-> FALSE,
     mt |-> FALSE, bad |-> <<>>, far |-> FALSE, bpsN |-> 1, mix |-> FALSE, cut |-> -1,
     bpsLast |-> FALSE]

\* every image size and tile size within the bounds
GeomInputs ==
    {[Base EXCEPT !.W = w, !.H = h, !.TW = tw, !.TH = th] :
        w \in 1..MaxDim, h \in 1..MaxDim, tw \in 1..MaxTile, th \in 1..MaxTile}

\* the Compression codes tried
Codes == {0, 1, 2, 5, 8, 32773, 32946}

\* byte orders, sample formats, predictors and compressions of a 3x1 raster in 2x2 tiles
FormatInputs ==
    {[Base EXCEPT !.bo = bo, !.bps = bps, !.sf = sf, !.hi = hi, !.pred = pred] :
        bo \in {"LE", "BE"}, bps \in {8, 16}, sf \in {1, 2}, hi \in BOOLEAN, pred \in {1, 2}}
    \cup {[Base EXCEPT !.comp = c, !.bo = bo] : c \in Codes, bo \in {"LE", "BE"}}
    \cup {[Base EXCEPT !.bps = bps] : bps \in {0, 4}}
    \cup {[Base EXCEPT !.sf = sf] : sf \in {0, 3}}
    \cup {[Base EXCEPT !.spp = 3], [Base EXCEPT !.photo = 2], [Base EXCEPT !.pred = 0]}

\* IFD chains (empty, cyclic), bad headers, tile tables too short or too long,
\* a last tile without bytes, no tile layout
StructInputs ==
    {[Base EXCEPT !.nifd = n, !.cyc = cyc, !.dlen = dl, !.short = sh, !.comp = c] :
        n \in 0..MaxIFD, cyc \in BOOLEAN, dl \in {-1, 0, 1}, sh \in BOOLEAN, c \in {1, 8}}
    \cup {[Base EXCEPT !.magic = FALSE], [Base EXCEPT !.TW = 0, !.TH = 0],
          [Base EXCEPT !.W = 0]}

\* the tags parseIFD recognises
Recognised ==
    {cNewSubfileType, cImageWidth, cImageLength, cBitsPerSample, cCompression,
     cPhotometricInterpr, cSamplesPerPixel, cTileWidth, cTileLength, cTileOffsets,
     cTileByteCounts, cSampleFormat}

\* files whose entry for one recognised tag announces another datatype or count
AnnounceInputs ==
    {[Base EXCEPT !.bad = <<tag, dt, count>>, !.bo = bo] :
        tag \in Recognised, dt \in {dtByte, dtShort, dtLong}, count \in {1, 2},
        bo \in {"LE", "BE"}}

\* a ModelTransformation entry, a tile table at an unreadable offset, BitsPerSample
\* stored at an offset, tile dimensions of 0, headers cut short or mixed
EntryInputs ==
    {[Base EXCEPT !.mt = TRUE, !.nifd = n, !.bo = bo] : n \in 1..MaxIFD, bo \in {"LE", "BE"}}
    \cup {[Base EXCEPT !.far = TRUE, !.bo = bo] : bo \in {"LE", "BE"}}
    \cup {[Base EXCEPT !.bpsN = 3, !.bo = bo] : bo \in {"LE", "BE"}}
    \cup {[Base EXCEPT !.TW = tw, !.TH = th] : tw \in {0, 2}, th \in {0, 2}}
    \cup {[Base EXCEPT !.mix = TRUE, !.bo = bo] : bo \in {"LE", "BE"}}
    \cup {[Base EXCEPT !.cut = n, !.bo = bo] : n \in {0, 4, 7, 8}, bo \in {"LE", "BE"}}
    \cup {[Base EXCEPT !.bpsLast = TRUE, !.bo = bo] : bo \in {"LE", "BE"}}

\* tile tables whose count makes 4 * count pass 2^32
WrapInputs ==
    {[Base EXCEPT !.bad = <<tag, dtLong, TwoTo30 + extra>>, !.bo = bo] :
        tag \in {cTileOffsets, cTileByteCounts}, extra \in 0..2, bo \in {"LE", "BE"}}

Inputs ==
    GeomInputs \cup FormatInputs \cup StructInputs \cup AnnounceInputs \cup EntryInputs
    \cup WrapInputs

\* the rectangles asked of a file: every rectangle inside the image, one that
\* overhangs it and one beside it
Rects(in) ==
    {r \in {Rect(x0, y0, x1, y1) :
                x0 \in 0..in.W, y0 \in 0..in.H, x1 \in 1..in.W, y1 \in 1..in.H} :
        r.x0 < r.x1 /\ r.y0 < r.y1}
    \cup {Rect(0, 0, in.W + 1, in.H + 1), Rect(in.W, 0, in.W + 1, 1)}

Levels == -1..MaxIFD

\* ------------------------------------------------------------------------
\* State
\* ------------------------------------------------------------------------
VARIABLES
    in,         \* what the encoder was asked to write
    file,       \* the bytes of the input
    pos,        \* bytes already consumed from the input when it is a sequential stream
    call,       \* the public operation in progress and its arguments
    frame,      \* the function whose body is running: "DecodeLevel" or "DecodeLevelSubImage"
    pc,         \* the position in that function
    d,          \* its decoder
    ifdOffset,  \* readIFD's loop variable
    rect,       \* the rect argument of DecodeLevelSubImage
    it,         \* the tile loop variables i and j
    img,        \* the local image DecodeLevelSubImage fills
    fetched,    \* the flat indices of the tiles fetched so far, in order
    ret,        \* what the public operation returned
    prev,       \* the previous call on the same file and what it returned
    pure        \* a function applied on its own: its arguments and its result

vars == <<in, file, pos, call, frame, pc, d, ifdOffset, rect, it, img, fetched, ret, prev,
          pure>>

\* the variables of the public operations
progVars == <<in, file, pos, call, frame, pc, d, ifdOffset, rect, it, img, fetched, ret, prev>>

Init ==
    /\ in \in Inputs
    /\ file = MkFile(in)
    /\ pos = 0
    /\ call = Nil
    /\ frame = ""
    /\ pc = "idle"
    /\ d = NoDecoder
    /\ ifdOffset = 0
    /\ rect = ZR
    /\ it = [i |-> 0, j |-> 0]
    /\ img = Nil
    /\ fetched = <<>>
    /\ ret = Nil
    /\ prev = Nil
    /\ pure = Nil

\* a decoder whose error paths hand back the named result img as it stands
ReturnedNamed(res, image) == [st |-> res.st, msg |-> res.msg, img |-> image]

\* what a public operation hands back: `return nil, err` on every error path,
\* the image only from the final `return`
Returned(res, image) ==
    [st |-> res.st, msg |-> res.msg, img |-> IF res.st = "ok" THEN image ELSE Nil]

Finish(res, image) ==
    /\ pc' = "done"
    /\ ret' = Returned(res, image)

Begin(op, level, r, seekable) ==
    /\ call' = [op |-> op, level |-> level, rect |-> r, seekable |-> seekable]
    /\ frame' = IF op \in {"DecodeLevelSubImage", "DecodeConfigLevel"} THEN op
                 ELSE "DecodeLevel"
    /\ pc' = "newDecoder"
    /\ pos' = 0
    /\ d' = NoDecoder
    /\ ifdOffset' = 0
    /\ rect' = r
    /\ it' = [i |-> 0, j |-> 0]
    /\ img' = Nil
    /\ fetched' = <<>>
    /\ ret' = Nil
    /\ UNCHANGED <<pure, in, file>>

\* Decode(r): DecodeLevel(r, 0)
CallDecode ==
    /\ pc = "idle"
    /\ \E seekable \in BOOLEAN : Begin("Decode", 0, ZR, seekable)
    /\ prev' = Nil

\* DecodeLevel(r, level), as the first call or repeated on a sequential stream
\* after a call on a byte-addressable reader
CallDecodeLevel ==
    /\ \E level \in Levels, seekable \in BOOLEAN :
          /\ \/ pc = "idle" /\ prev' = Nil
             \/ /\ pc = "done" /\ prev = Nil
                /\ call.op = "DecodeLevel" /\ call.level = level
                /\ call.seekable /\ ~seekable
                /\ prev' = [call |-> call, ret |-> ret]
          /\ Begin("DecodeLevel", level, ZR, seekable)

\* DecodeLevelSubImage(r, level, rect), after a DecodeLevel of the same level
CallDecodeLevelSubImage ==
    /\ pc = "done" /\ prev = Nil
    /\ call.op = "DecodeLevel" /\ call.seekable
    /\ prev' = [call |-> call, ret |-> ret]
    /\ \E r \in Rects(in) : Begin("DecodeLevelSubImage", call.level, r, TRUE)

\* DecodeConfigLevel(r, level), and DecodeConfig(r) as level 0
CallDecodeConfigLevel ==
    /\ pc = "idle"
    /\ prev' = Nil
    /\ \E level \in Levels, seekable \in BOOLEAN :
          Begin("DecodeConfigLevel", level, ZR, seekable)

\* d, err := newDecoder(r)
NewDecoderStep ==
    /\ pc = "newDecoder"
    /\ LET r == newDecoder(file, call.seekable, pos)
       IN  /\ pos' = r.pos
           /\ d' = r.d
           /\ IF r.res.st = "ok" THEN pc' = "readIFD" /\ ret' = ret
              ELSE Finish(r.res, Nil)
    /\ UNCHANGED <<pure, in, file, call, frame, ifdOffset, rect, it, img, fetched, prev>>

\* readIFD up to its loop: the offset of the first IFD
ReadIFDStart ==
    /\ pc = "readIFD"
    /\ LET r == ReadAt(d.ra.view, 4, 4)
       IN  IF r.err THEN Finish(Err("error", "EOF"), Nil) /\ ifdOffset' = ifdOffset
           ELSE /\ ifdOffset' = Uint32(d.bo, r.p)
                /\ pc' = IF Uint32(d.bo, r.p) = 0 THEN "body" ELSE "parseIFD"
                /\ ret' = ret
    /\ UNCHANGED <<pure, in, file, pos, call, frame, d, rect, it, img, fetched, prev>>

\* one turn of readIFD's loop: ifdOffset, err = d.parseIFD(ifdOffset)
ParseIFDStep ==
    /\ pc = "parseIFD"
    /\ Len(d.dsc) < MaxDsc
    /\ LET r == parseIFD(d, ifdOffset)
       IN  /\ d' = [d EXCEPT !.dsc = r.dsc]
           /\ IF r.res.st # "ok" THEN Finish(r.res, Nil) /\ ifdOffset' = ifdOffset
              ELSE /\ ifdOffset' = r.next
                   /\ pc' = IF r.next = 0 THEN "body" ELSE "parseIFD"
                   /\ ret' = ret
    /\ UNCHANGED <<pure, in, file, pos, call, frame, rect, it, img, fetched, prev>>

\* DecodeLevel after readIFD: the whole image rectangle of the level is handed,
\* with the same reader r, to DecodeLevelSubImage
DecodeLevelBody ==
    /\ pc = "body" /\ frame = "DecodeLevel"
    /\ IF call.level < 0 \/ call.level >= Len(d.dsc)
       THEN /\ Finish(Err("panic", "index out of range"), Nil)
            /\ UNCHANGED <<frame, rect, d>>
       ELSE /\ rect' = Rect(0, 0, d.dsc[call.level + 1].ImageWidth,
                            d.dsc[call.level + 1].ImageHeight)
            /\ frame' = "DecodeLevelSubImage"
            /\ pc' = "newDecoder"
            /\ d' = NoDecoder
            /\ ret' = ret
    /\ UNCHANGED <<pure, in, file, pos, call, ifdOffset, it, img, fetched, prev>>

\* DecodeConfigLevel after readIFD: the color model and the dimensions of the level
ConfigBody ==
    /\ pc = "body" /\ frame = "DecodeConfigLevel"
    /\ pc' = "done"
    /\ ret' = IF call.level < 0 \/ call.level >= Len(d.dsc)
              THEN [st |-> "panic", msg |-> "index out of range", img |-> Nil]
              ELSE IF colorModel(d.dsc[call.level + 1]) = "panic"
              THEN [st |-> "panic", msg |-> "index out of range", img |-> Nil]
              ELSE [st |-> "ok", msg |-> "", img |-> Nil,
                    config |-> [ColorModel |-> colorModel(d.dsc[call.level + 1]),
                                Width |-> d.dsc[call.level + 1].ImageWidth,
                                Height |-> d.dsc[call.level + 1].ImageHeight]]
    /\ UNCHANGED <<pure, in, file, pos, call, frame, d, ifdOffset, rect, it, img, fetched, prev>>

\* DecodeLevelSubImage after readIFD, up to the first tile
SubImageBody ==
    /\ pc = "body" /\ frame = "DecodeLevelSubImage"
    /\ LET s == subImageSetup(d.dsc, call.level, rect)
       IN  /\ img' = s.img
           /\ IF s.res.st # "ok" THEN Finish(s.res, Nil) /\ it' = it
              ELSE /\ pc' = "tiles"
                   /\ it' = [i |-> FirstI(d.dsc[call.level + 1], s.img.rect),
                             j |-> FirstJ(d.dsc[call.level + 1], s.img.rect)]
                   /\ ret' = ret
    /\ UNCHANGED <<pure, in, file, pos, call, frame, d, ifdOffset, rect, fetched, prev>>

\* one turn of the inner tile loop: fetch, decompress and unpack tile (i, j), then
\* move on to the next tile or return the image
TileStep ==
    /\ pc = "tiles"
    /\ LET cfg  == d.dsc[call.level + 1]
           idx  == it.j * blocksAcrossOf(cfg) + it.i
           f    == fetchTile(d.ra, cfg.Compression, cfg.TileOffsets[idx + 1],
                             cfg.TileByteCounts[idx + 1])
           xmin == it.i * cfg.TileWidth
           ymin == it.j * cfg.TileHeight
           dec  == decode(f.buf, cfg, img, xmin, ymin, xmin + cfg.TileWidth,
                          ymin + cfg.TileHeight)
           last == it.j + 1 > LastJ(cfg, img.rect) /\ it.i + 1 > LastI(cfg, img.rect)
       IN  IF idx >= Len(cfg.TileOffsets) \/ idx >= Len(cfg.TileByteCounts)
           THEN /\ Finish(Err("panic", "index out of range"), Nil)
                /\ UNCHANGED <<d, it, img, fetched>>
           ELSE IF f.res.st # "ok"
           THEN /\ Finish(f.res, img)
                /\ fetched' = IF f.res.st = "UnsupportedError" THEN fetched
                              ELSE Append(fetched, idx)
                /\ UNCHANGED <<d, it, img>>
           ELSE /\ fetched' = Append(fetched, idx)
                /\ d' = [d EXCEPT !.buf = f.buf]
                /\ img' = [img EXCEPT !.pix = dec.pix]
                /\ IF dec.res.st # "ok" THEN Finish(dec.res, img') /\ it' = it
                   ELSE IF last THEN Finish(Ok, img') /\ it' = it
                   ELSE /\ it' = IF it.j + 1 > LastJ(cfg, img.rect)
                                 THEN [i |-> it.i + 1, j |-> FirstJ(cfg, img.rect)]
                                 ELSE [it EXCEPT !.j = it.j + 1]
                        /\ pc' = pc /\ ret' = ret
    /\ UNCHANGED <<pure, in, file, pos, call, frame, ifdOffset, rect, prev>>

Next ==
    \/ CallDecode
    \/ CallDecodeLevel
    \/ CallDecodeLevelSubImage
    \/ CallDecodeConfigLevel
    \/ NewDecoderStep
    \/ ReadIFDStart
    \/ ParseIFDStep
    \/ DecodeLevelBody
    \/ ConfigBody
    \/ SubImageBody
    \/ TileStep

Spec == Init /\ [][Next]_vars

\* ------------------------------------------------------------------------
\* Functions applied on their own
\* ------------------------------------------------------------------------
\* the public operations are not running
Parked ==
    /\ in = Base /\ file = <<>> /\ pos = 0 /\ call = Nil /\ frame = "" /\ pc = "idle"
    /\ d = NoDecoder /\ ifdOffset = 0 /\ rect = ZR /\ it = [i |-> 0, j |-> 0]
    /\ img = Nil /\ fetched = <<>> /\ ret = Nil /\ prev = Nil

\* a decompressed tile of n bytes
TileBuf(n) == [k \in 1..n |-> (200 + 37 * k) % 256]

\* the arguments of decode: a destination of each variant and bounds, a tile of
\* each size at the first or second grid position each way, a buffer of any
\* length up to that of the whole tile
DecodeArgs ==
    {[fn |-> "decode", variant |-> v, rect |-> r, xmin |-> i * tw, ymin |-> j * th,
      xmax |-> i * tw + tw, ymax |-> j * th + th, buf |-> TileBuf(n), out |-> Nil] :
        v \in {"GrayU8", "GrayU16", "GrayS8", "GrayS16"},
        r \in {q \in {Rect(x0, y0, x1, y1) : x0 \in 0..MaxDim, y0 \in 0..MaxDim,
                                              x1 \in 1..MaxDim, y1 \in 1..MaxDim} :
                  q.x0 < q.x1 /\ q.y0 < q.y1},
        i \in 0..1, j \in 0..1, tw \in 1..MaxTile, th \in 1..MaxTile,
        n \in 0..(2 * MaxTile * MaxTile)}

InitUnpack ==
    /\ Parked
    /\ pure \in {a \in DecodeArgs :
                    Len(a.buf) <= SampleSize(a.variant) * (a.xmax - a.xmin) * (a.ymax - a.ymin)}

\* err = d.decode(img, level, xmin, ymin, xmax, ymax) on a fresh destination
ApplyDecode ==
    /\ pure.fn = "decode" /\ pure.out = Nil
    /\ pure' = [pure EXCEPT !.out =
                    decode(pure.buf, [ZeroImgDesc EXCEPT !.SamplesPerPixel = 1],
                           NewImage(pure.variant, pure.rect),
                           pure.xmin, pure.ymin, pure.xmax, pure.ymax)]
    /\ UNCHANGED progVars

NextUnpack == ApplyDecode

\* ------------------------------------------------------------------------
\* The horizontal predictor of the decoder of reader.go
\* ------------------------------------------------------------------------
prHorizontal == 2

\* buf with the `size` bytes at offset off replaced by the bytes bs
PutAt(buf, off, bs) ==
    [k \in 1..Len(buf) |-> IF k > off /\ k <= off + Len(bs) THEN bs[k - off] ELSE buf[k]]

\* for x := 0; x < (xmax-xmin-1)*n; x += size: add the sample n bytes back to the
\* sample at off, in uint8 or uint16 arithmetic; left is the part of the bound
\* not yet covered by x
RECURSIVE predictRow(_, _, _, _, _, _)
predictRow(buf, bo, size, n, off, left) ==
    IF left <= 0 THEN [err |-> FALSE, off |-> off, buf |-> buf]
    ELSE IF off + size > Len(buf) THEN [err |-> TRUE, off |-> off, buf |-> buf]
    ELSE IF size = 2
    THEN predictRow(PutAt(buf, off,
                          Put16(bo, (Uint16(bo, Slice(buf, off, off + 2))
                                     + Uint16(bo, Slice(buf, off - n, off - n + 2))) % 65536)),
                    bo, size, n, off + 2, left - 2)
    ELSE predictRow(PutAt(buf, off, <<(buf[off + 1] + buf[off - n + 1]) % 256>>),
                    bo, size, n, off + 1, left - 1)

\* for y := ymin; y < ymax; y++ { off += n; ... }
RECURSIVE predictRows(_, _, _, _, _, _, _)
predictRows(buf, bo, size, n, off, left, rows) ==
    IF rows <= 0 THEN [err |-> FALSE, buf |-> buf]
    ELSE LET row == predictRow(buf, bo, size, n, off + n, left)
         IN  IF row.err THEN [err |-> TRUE, buf |-> row.buf]
             ELSE predictRows(row.buf, bo, size, n, row.off, left, rows - 1)

\* a pass whose rows end at the right edge of the destination
predictorClipped(buf, bo, pred, bpp, spp, dstMaxX, xmin, ymin, xmax, ymax) ==
    LET r == predictRows(buf, bo, bpp \div 8, (bpp \div 8) * spp, 0,
                         (minInt(xmax, dstMaxX) - xmin - 1) * (bpp \div 8) * spp, ymax - ymin)
    IN  [res |-> Ok, buf |-> r.buf]

\* the first part of decode(dst, xmin, ymin, xmax, ymax): when the Predictor
\* feature is prHorizontal, d.buf is rewritten in place; spp is the number of
\* BitsPerSample values, dstMaxX the right edge of dst
predictor(buf, bo, pred, bpp, spp, dstMaxX, xmin, ymin, xmax, ymax) ==
    IF pred # prHorizontal THEN [res |-> Ok, buf |-> buf]
    ELSE IF bpp = 1
    THEN [res |-> Err("UnsupportedError", "horizontal predictor with 1 BitsPerSample"),
          buf |-> buf]
    ELSE IF bpp \notin {8, 16} THEN [res |-> Ok, buf |-> buf]
    ELSE LET r == predictRows(buf, bo, bpp \div 8, (bpp \div 8) * spp, 0,
                              (xmax - xmin - 1) * (bpp \div 8) * spp, ymax - ymin)
         IN  IF r.err THEN [res |-> Err("FormatError", "not enough pixel data"), buf |-> r.buf]
             ELSE [res |-> Ok, buf |-> r.buf]

\* the bytes of a tile of samples, row after row, in the byte order bo
SampleBytesOf(bo, bpp, samples) ==
    Flatten([k \in 1..Len(samples) |->
                IF bpp = 8 THEN <<samples[k]>> ELSE Put16(bo, samples[k])])

\* the tiles of n stored samples: at each position one of two values whose
\* sums pass 2^8 and 2^16 and carry from the low byte into the high one
TileSamples(bpp, n) ==
    {[k \in 1..n |-> IF f[k] = 0 THEN 255 ELSE IF bpp = 8 THEN 1 ELSE 65535] :
        f \in [1..n -> {0, 1}]}

\* the arguments of the pass: a tile of w x h differenced samples in either
\* byte order, at the first or second grid position, for a destination that
\* ends at the tile's right edge or one column before it
PredictorArgs ==
    UNION {UNION {{[fn |-> "predictor", bo |-> bo, pred |-> pr, bpp |-> bpp,
                    w |-> wh[1], h |-> wh[2], samples |-> smp,
                    xmin |-> i * wh[1], ymin |-> 0, xmax |-> i * wh[1] + wh[1], ymax |-> wh[2],
                    dstMaxX |-> i * wh[1] + wh[1] - clip, out |-> Nil] :
                      bo \in {"LE", "BE"}, pr \in {1, prHorizontal},
                      smp \in TileSamples(bpp, wh[1] * wh[2]),
                      i \in 0..1, clip \in 0..1} :
                  bpp \in {8, 16}} :
           wh \in {p \in (1..MaxPN) \X (1..MaxPN) : p[1] * p[2] <= MaxPN}}

InitPredictor ==
    /\ Parked
    /\ pure \in {a \in PredictorArgs : a.dstMaxX > a.xmin}

\* the predictor pass over d.buf
ApplyPredictor ==
    /\ pure.fn = "predictor" /\ pure.out = Nil
    /\ pure' = [pure EXCEPT !.out =
                    predictor(SampleBytesOf(pure.bo, pure.bpp, pure.samples), pure.bo,
                              pure.pred, pure.bpp, 1, pure.dstMaxX,
                              pure.xmin, pure.ymin, pure.xmax, pure.ymax)]
    /\ UNCHANGED progVars

NextPredictor == ApplyPredictor

SpecPredictor == InitPredictor /\ [][NextPredictor]_vars

\* ------------------------------------------------------------------------
\* GeoKeys: GeoCode, KeyEntry, extract and parseGeoKeyDirectory
\* ------------------------------------------------------------------------
GeoDoubleParamsTag == 34736
GeoAsciiParamsTag == 34737

\* GeoCode{}: every uint16 and float64 field 0, every string empty
ZeroGeoCode ==
    [ModelType |-> 0, RasterType |-> 0, Citation |-> <<>>, GeographicType |-> 0,
     GeogCitation |-> <<>>, GeogGeodeticDatum |-> 0, GeogAngularUnits |-> 0,
     GeogEllipsoid |-> 0, GeogSemiMajorAxis |-> 0, GeogSemiMinorAxis |-> 0,
     GeogPrimeMeridianLong |-> 0, ProjCSTType |-> 0, Proj |-> 0, ProjCoordTrans |-> 0,
     ProjLinearUnits |-> 0, ProjFalseEasting |-> 0, ProjFalseNorthing |-> 0,
     ProjCenterLong |-> 0]

KeyEntry(id, loc, count, off) ==
    [KeyID |-> id, TIFFTagLocation |-> loc, Count |-> count, ValueOffset |-> off]

\* the GeoCode field set by each key of the switch, "" for the default case
FieldOf(id) ==
    CASE id = 1024 -> "ModelType"
      [] id = 1025 -> "RasterType"
      [] id = 1026 -> "Citation"
      [] id = 2048 -> "GeographicType"
      [] id = 2049 -> "GeogCitation"
      [] id = 2050 -> "GeogGeodeticDatum"
      [] id = 2054 -> "GeogAngularUnits"
      [] id = 2056 -> "GeogEllipsoid"
      [] id = 2057 -> "GeogSemiMajorAxis"
      [] id = 2058 -> "GeogSemiMinorAxis"
      [] id = 2061 -> "GeogPrimeMeridianLong"
      [] id = 3072 -> "ProjCSTType"
      [] id = 3074 -> "Proj"
      [] id = 3075 -> "ProjCoordTrans"
      [] id = 3076 -> "ProjLinearUnits"
      [] id = 3082 -> "ProjFalseEasting"
      [] id = 3083 -> "ProjFalseNorthing"
      [] id = 3088 -> "ProjCenterLong"
      [] OTHER -> ""

AsciiKeys == {1026, 2049}
DoubleKeys == {2057, 2058, 2061, 3082, 3083, 3088}

\* g.extract(k, dParams, aParams): the GeoCode after the call, or a run-time
\* panic of the index dParams[k.ValueOffset] or of the slice
\* aParams[k.ValueOffset : k.ValueOffset+k.Count], whose upper bound is a
\* uint16 sum; the error returned is always nil
extract(g, k, dParams, aParams) ==
    LET lo == k.ValueOffset
        hi == (k.ValueOffset + k.Count) % 65536
    IN  IF FieldOf(k.KeyID) = "" THEN [st |-> "ok", err |-> Nil, g |-> g]
        ELSE IF k.KeyID \in AsciiKeys
        THEN IF k.TIFFTagLocation # GeoAsciiParamsTag THEN [st |-> "ok", err |-> Nil, g |-> g]
             ELSE IF lo > hi \/ hi > Len(aParams)
             THEN [st |-> "panic", err |-> "slice bounds out of range", g |-> g]
             ELSE [st |-> "ok", err |-> Nil,
                   g |-> [g EXCEPT ![FieldOf(k.KeyID)] = Slice(aParams, lo, hi)]]
        ELSE IF k.KeyID \in DoubleKeys
        THEN IF k.TIFFTagLocation # GeoDoubleParamsTag THEN [st |-> "ok", err |-> Nil, g |-> g]
             ELSE IF lo >= Len(dParams)
             THEN [st |-> "panic", err |-> "index out of range", g |-> g]
             ELSE [st |-> "ok", err |-> Nil,
                   g |-> [g EXCEPT ![FieldOf(k.KeyID)] = dParams[lo + 1]]]
        ELSE [st |-> "ok", err |-> Nil, g |-> [g EXCEPT ![FieldOf(k.KeyID)] = lo]]

\* the key entries tried: every key of the switch and one it does not know, at
\* the two parameter tags and at no tag, with offsets and counts at both ends
\* of uint16 and codes that the enumerations list and do not list
KeyEntries ==
    {KeyEntry(id, loc, count, off) :
        id \in {1024, 1025, 1026, 2048, 2049, 2050, 2054, 2056, 2057, 2058, 2061,
                3072, 3074, 3075, 3076, 3082, 3083, 3088, 4096},
        loc \in {0, GeoDoubleParamsTag, GeoAsciiParamsTag},
        count \in {0, 1, 65535},
        off \in {0, 1, 2, 4326, 32767, 65535}}

\* the double-params table of n values and the ASCII-params string of n bytes
DoubleParams(n) == [k \in 1..n |-> 6378137 + k]
AsciiParams(n) == [k \in 1..n |-> 64 + k]

\* a directory of one entry, alone or followed by a second, well-formed one
GeoArgs ==
    {[fn |-> "parseGeoKeyDirectory", kEntries |-> <<k>> \o tail,
      dParams |-> DoubleParams(nd), aParams |-> AsciiParams(na),
      n |-> 0, gc |-> ZeroGeoCode, st |-> "run"] :
        k \in KeyEntries, tail \in {<<>>, <<KeyEntry(1025, 0, 1, 1)>>},
        nd \in 0..MaxParams, na \in 0..MaxParams}

InitGeo ==
    /\ Parked
    /\ pure \in GeoArgs

\* one turn of the loop of parseGeoKeyDirectory: gc.extract(kEntry, ...), its
\* error dropped
ExtractStep ==
    /\ pure.fn = "parseGeoKeyDirectory" /\ pure.st = "run"
    /\ pure.n < Len(pure.kEntries)
    /\ LET r == extract(pure.gc, pure.kEntries[pure.n + 1], pure.dParams, pure.aParams)
       IN  pure' = [pure EXCEPT !.n = pure.n + 1, !.gc = r.g,
                                !.st = IF r.st = "panic" THEN "panic" ELSE "run"]
    /\ UNCHANGED progVars

\* return gc
ReturnGeo ==
    /\ pure.fn = "parseGeoKeyDirectory" /\ pure.st = "run"
    /\ pure.n = Len(pure.kEntries)
    /\ pure' = [pure EXCEPT !.st = "ok"]
    /\ UNCHANGED progVars

NextGeo == ExtractStep \/ ReturnGeo

SpecGeo == InitGeo /\ [][NextGeo]_vars

SpecUnpack == InitUnpack /\ [][NextUnpack]_vars

\* ------------------------------------------------------------------------
\* Properties
\* ------------------------------------------------------------------------
\* the Compression codes of the dispatch table of the specification
SpecCodes == {0, 1, cLZW, 6, 7, cDeflate, cDeflateOld, cPackBits}

\* the file is a well-formed tiled grayscale file: one the decoder is meant to decode
ValidFile ==
    /\ in.magic /\ in.nifd >= 1 /\ ~in.cyc /\ in.dlen = 0 /\ ~in.short
    /\ in.W > 0 /\ in.H > 0 /\ in.TW > 0 /\ in.TH > 0
    /\ in.spp = 1 /\ in.photo = pBlackIsZero
    /\ in.bps \in {8, 16} /\ in.sf \in {uintSample, sintSample}
    /\ in.pred \in {1, 2} /\ in.comp \in SpecCodes
    /\ ~in.mt /\ in.bad = <<>> /\ ~in.far /\ in.bpsN = 1 /\ ~in.mix /\ in.cut < 0
    /\ ~in.bpsLast

Done == pc = "done"

Returns == Done /\ ret.st # "panic"

FullRect == Rect(0, 0, in.W, in.H)

Inside(r, s) == s.x0 <= r.x0 /\ r.x1 <= s.x1 /\ s.y0 <= r.y0 /\ r.y1 <= s.y1

\* the pixel the raster has at pt, as the destination image represents it
Expected(pt) == AsPixel(in, Raster(in, pt[1], pt[2]))

\* the flat indices of the tiles whose area meets rectangle r
TilesMeeting(r) ==
    {tj * GridAcross(in) + ti : <<ti, tj>> \in
        {t \in (0..(GridAcross(in) - 1)) \X (0..(GridDown(in) - 1)) :
            /\ t[1] * in.TW < r.x1 /\ (t[1] + 1) * in.TW > r.x0
            /\ t[2] * in.TH < r.y1 /\ (t[2] + 1) * in.TH > r.y0}}

FetchedSet == {fetched[k] : k \in 1..Len(fetched)}

\* C1: for every rect inside the image rectangle, DecodeLevelSubImage(level, rect)
\* returns an image with bounds rect whose pixels equal those of the image that
\* DecodeLevel(level) returned for the same file, whatever TW, TH and the position
\* of rect relative to the tile boundaries.
C1_SubImageLaw ==
    (/\ Done /\ call.op = "DecodeLevelSubImage" /\ ValidFile
     /\ prev # Nil /\ prev.ret.st = "ok" /\ Inside(call.rect, FullRect))
    => /\ ret.st = "ok"
       /\ ret.img.rect = call.rect
       /\ \A pt \in Points(call.rect) : ret.img.pix[pt] = prev.ret.img.pix[pt]

\* C2: the full decode of level 0 of a valid uncompressed 8-bit unsigned file
\* succeeds and returns a W x H image whose pixel (x, y) is byte
\* (y mod TH)*TW + (x mod TW) of tile (y div TH)*blocksAcross + (x div TW).
C2_FullDecode ==
    (/\ Done /\ call.op \in {"Decode", "DecodeLevel"} /\ call.level = 0 /\ call.seekable
     /\ ValidFile /\ in.comp = cNone /\ in.bps = 8 /\ in.sf = uintSample /\ in.pred = 1)
    => /\ ret.st = "ok"
       /\ ret.img.rect = FullRect
       /\ \A pt \in Points(FullRect) :
             ret.img.pix[pt] =
                TileRaw(in, (pt[2] \div in.TH) * GridAcross(in) + (pt[1] \div in.TW))
                       [(pt[2] % in.TH) * in.TW + (pt[1] % in.TW) + 1]

\* C3: during DecodeLevelSubImage(level, rect) the tiles fetched are exactly the
\* tiles whose area meets rect /\ image_rect: no other tile is read, and a call
\* that returns an image has read every one of them.
C3_OnlyMeetingTilesFetched ==
    (call # Nil /\ call.op = "DecodeLevelSubImage" /\ ValidFile)
    => /\ FetchedSet \subseteq TilesMeeting(Intersect(FullRect, call.rect))
       /\ (Done /\ ret.st = "ok")
             => TilesMeeting(Intersect(FullRect, call.rect)) \subseteq FetchedSet

\* C4: DecodeLevel gives the same result for a sequential stream as for a
\* byte-addressable reader over the same bytes.
C4_StreamAsReaderAt ==
    (/\ Done /\ call.op = "DecodeLevel" /\ ~call.seekable /\ ValidFile
     /\ prev # Nil /\ prev.call.op = "DecodeLevel" /\ prev.call.seekable)
    => ret = prev.ret

\* C5: the IFD-chain walk terminates for every finite file, cyclic chains included:
\* it parses no IFD twice, so the list of ImgDesc never grows beyond the number of
\* IFDs the file holds.
C5_ChainWalkEnds == Len(d.dsc) <= in.nifd

\* C6: no partial decodes.  Whenever DecodeLevelSubImage, DecodeLevel or Decode
\* returns an error, before the first tile or in the middle of the tile loop,
\* the image it returns is nil.
C6_NoPartialDecode == (Returns /\ ret.st # "ok") => ret.img = Nil

\* C6 witness: the call failed on a tile after an earlier tile had been unpacked
\* into the local image, and no image was returned
C6_Witness ==
    /\ Returns /\ ret.st = "FormatError" /\ ret.msg = "not enough pixel data"
    /\ Len(fetched) >= 2
    /\ img # Nil /\ \E pt \in Points(img.rect) : img.pix[pt] # 0
    /\ ret.img = Nil

\* C7: for every level DecodeLevelSubImage accepts (no "inconsistent header"),
\* len(TileOffsets) = len(TileByteCounts) = ceil(W/TW) * ceil(H/TH).
C7_TileTableLengths ==
    (pc = "tiles")
    => LET cfg == d.dsc[call.level + 1]
           n   == CeilDiv(cfg.ImageWidth, cfg.TileWidth)
                    * CeilDiv(cfg.ImageHeight, cfg.TileHeight)
       IN  cfg.TileHeight # 0 /\ Len(cfg.TileOffsets) = n /\ Len(cfg.TileByteCounts) = n

\* C8: a level stored with Predictor = 2 decodes to the same pixels as the same
\* raster stored with Predictor = 1, that is to the raster itself.
C8_PredictorUndone ==
    (/\ Done /\ ValidFile /\ in.pred = 2 /\ in.bps = 8 /\ in.TW = in.TH
     /\ in.comp = cNone /\ ret.st = "ok" /\ ret.img # Nil)
    => \A pt \in Points(ret.img.rect) : ret.img.pix[pt] = Expected(pt)

\* C9: a big-endian file and its little-endian twin (all fields and the 16-bit
\* samples stored in the file's own byte order) decode to the same pixels: each
\* decodes to the raster both encode, at 8 and at 16 bits, unsigned and signed.
C9_EndiannessLaw ==
    (/\ Done /\ ValidFile /\ in.pred = 1 /\ in.TW = in.TH /\ in.comp = cNone
     /\ ret.st = "ok" /\ ret.img # Nil)
    => \A pt \in Points(ret.img.rect) : ret.img.pix[pt] = Expected(pt)

\* C10: DecodeLevelSubImage fetches and decodes tiles for exactly the Compression
\* codes of the dispatch table (0, 1, 5 LZW, the deflate codes, 32773 PackBits);
\* for every other code it fails with an UnsupportedError and returns no image.
C10_CompressionCodes ==
    (/\ Returns /\ ValidFile /\ img # Nil)
    => /\ (in.comp \in SpecCodes) => (ret.st # "UnsupportedError" /\ fetched # <<>>)
       /\ (in.comp \notin SpecCodes) => (ret.st = "UnsupportedError" /\ ret.img = Nil)

\* C11: a file with a ModelTransformation entry (tag 34264) in an IFD of its
\* chain fails directory parsing: every public operation on it returns an
\* UnsupportedError.
C11_ModelTransformationFails ==
    (Done /\ in.mt /\ call.seekable /\ call.level \in 0..(in.nifd - 1))
    => ret.st = "UnsupportedError"

\* the entry the file announces for a recognised tag departs from the tag table:
\* LONG count 1 for NewSubfileType; SHORT or LONG count 1 for the four dimensions;
\* SHORT count 1 for Compression, Photometric, SamplesPerPixel; SHORT for
\* BitsPerSample and SampleFormat; LONG for the two tile tables
Mismatch ==
    /\ in.bad # <<>>
    /\ LET tag == in.bad[1]  dt == in.bad[2]  count == in.bad[3]
       IN  CASE tag = cNewSubfileType -> dt # dtLong \/ count # 1
             [] tag \in {cImageWidth, cImageLength, cTileWidth, cTileLength} ->
                    dt \notin {dtShort, dtLong} \/ count # 1
             [] tag \in {cCompression, cPhotometricInterpr, cSamplesPerPixel} ->
                    dt # dtShort \/ count # 1
             [] tag \in {cBitsPerSample, cSampleFormat} -> dt # dtShort
             [] tag \in {cTileOffsets, cTileByteCounts} -> dt # dtLong
             [] OTHER -> FALSE

\* C12: when an entry for a recognised tag announces a datatype or count other
\* than the one the tag table demands, parseIFD fails with a FormatError and
\* appends no ImgDesc for that IFD.
C12_AnnouncedTypeChecked ==
    Mismatch => /\ d.dsc = <<>>
                /\ pc \notin {"body", "tiles"}
                /\ Done => ret.st = "FormatError"

\* C12 witness: parseIFD has refused a SamplesPerPixel entry that announces two
\* values, and the decoder holds no ImgDesc
C12_Witness ==
    /\ Done /\ Mismatch /\ in.bad = <<cSamplesPerPixel, dtShort, 2>>
    /\ ret.st = "FormatError" /\ ret.msg = "9unexpected value found on IFD"
    /\ d.dsc = <<>>

\* C13: when the offset of an indirect TileOffsets table cannot be read in full
\* from the source, directory parsing ends with a FormatError and no tile table
\* is populated from the failed read.
C13_UnreadableTableFails ==
    (in.far /\ in.magic) => /\ d.dsc = <<>>
                            /\ Done => ret.st = "FormatError"

\* C14: parseIFD takes the values of an array-valued entry from the entry's last
\* 4 bytes when count * elem_size <= 4, and otherwise from the offset those bytes
\* hold: a BitsPerSample entry of three SHORTs stored at an offset yields the
\* three values stored there.
C14_InlineOrIndirect ==
    (in.bpsN > 1 /\ Len(d.dsc) >= 1)
    => d.dsc[1].BitsPerSample = [k \in 1..in.bpsN |-> in.bps]

\* C15: after a successful readIFD the decoder holds exactly one ImgDesc per IFD
\* of the chain, in chain order: entry k describes the k-th IFD reached from the
\* header, the one a call with level index k works on.
C15_ChainOrder ==
    (pc \in {"body", "tiles"} /\ ~in.cyc)
    => /\ Len(d.dsc) = in.nifd
       /\ \A k \in 1..Len(d.dsc) : d.dsc[k].NewSubfileType = k - 1

\* C15 witness: readIFD has walked a chain of two IFDs and the second ImgDesc is
\* that of the second IFD
C15_Witness ==
    /\ pc = "body" /\ in.nifd = 2 /\ ~in.cyc
    /\ Len(d.dsc) = 2 /\ d.dsc[1].NewSubfileType = 0 /\ d.dsc[2].NewSubfileType = 1

\* C16: within one DecodeLevelSubImage call the tiles are fetched in row-major
\* order, that is in ascending order of their flat index j*blocksAcross + i
\* (stated for square tiles that do not divide the image, where the two loops
\* visit each tile of the grid once).
C16_RowMajor ==
    (/\ ValidFile /\ frame = "DecodeLevelSubImage"
     /\ in.TW = in.TH /\ in.W % in.TW # 0 /\ in.H % in.TH # 0)
    => \A a, b \in 1..Len(fetched) : a < b => fetched[a] < fetched[b]

\* the input a decoder is made on starts with one of the two TIFF headers
GoodHeader(bytes) ==
    Len(bytes) >= 8 /\ SubSeq(bytes, 1, 4) \in {leHeader, beHeader}

\* C17: newDecoder succeeds only on an input of at least 8 bytes whose first 4
\* bytes are "II" + 42 little-endian or "MM" + 42 big-endian, and selects that
\* byte order; on any other input it fails with FormatError("malformed header")
\* and no IFD is read.
C17_HeaderChecked ==
    /\ (d # NoDecoder)
       => /\ GoodHeader(d.ra.view)
          /\ d.bo = (IF SubSeq(d.ra.view, 1, 4) = leHeader THEN "LE" ELSE "BE")
    /\ (Done /\ ~GoodHeader(file))
       => /\ ret.st = "FormatError" /\ ret.msg = "malformed header"
          /\ d = NoDecoder

\* C17 witness: a file that starts "MM" followed by 42 written little-endian has
\* been refused
C17_Witness ==
    /\ Done /\ in.mix /\ in.bo = "BE" /\ SubSeq(file, 1, 4) = <<77, 77, 42, 0>>
    /\ ret.st = "FormatError" /\ ret.msg = "malformed header" /\ d = NoDecoder

\* C18: DecodeLevelSubImage with a rectangle that does not intersect the image
\* rectangle of the level fails with a FormatError, fetches no tile and returns
\* no image.
C18_NoIntersection ==
    (/\ Done /\ call.op = "DecodeLevelSubImage" /\ ValidFile
     /\ prev # Nil /\ prev.ret.st = "ok"
     /\ Empty(Intersect(FullRect, call.rect)))
    => ret.st = "FormatError" /\ fetched = <<>> /\ ret.img = Nil

\* C19: a level without a tile layout (TileWidth or TileLength 0) is rejected:
\* DecodeLevelSubImage does not go on to enumerate tiles and does not return an
\* image for it.
C19_StripedRejected ==
    ((in.TW = 0 \/ in.TH = 0) /\ frame = "DecodeLevelSubImage")
    => (pc # "tiles" /\ (Done => ret.st # "ok"))

\* C20: a level whose IFD has no SampleFormat entry is treated as if it declared
\* SampleFormat = 1: DecodeConfigLevel reports the unsigned color model for its
\* bits per sample and the decode returns an unsigned image.
C20_SampleFormatDefault ==
    (Done /\ in = [Base EXCEPT !.sf = 0] /\ call.seekable /\ call.level = 0)
    => /\ ret.st = "ok"
       /\ call.op = "DecodeConfigLevel" => ret.config.ColorModel = "GrayU8"
       /\ call.op \in {"Decode", "DecodeLevel"} => ret.img.variant = "GrayU8"

\* the destination-variant table: the color model of a (photometric,
\* sample format, bits per sample) combination, "fail" for every other one
VariantTable(photo, sf, bps) ==
    IF photo = 1 /\ sf = 1 /\ bps = 8 THEN "GrayU8"
    ELSE IF photo = 1 /\ sf = 1 /\ bps = 16 THEN "GrayU16"
    ELSE IF photo = 1 /\ sf = 2 /\ bps = 8 THEN "GrayS8"
    ELSE IF photo = 1 /\ sf = 2 /\ bps = 16 THEN "GrayS16"
    ELSE "fail"

\* the directory of the file parses: a good header, a finite chain of IFDs whose
\* entries are announced and laid out as the tag table demands
ParsesWell ==
    /\ in.magic /\ ~in.mix /\ in.cut < 0 /\ ~in.cyc /\ in.bad = <<>>
    /\ ~in.bpsLast /\ in.bpsN = 1 /\ ~in.mt /\ ~in.far

\* C21: DecodeConfigLevel(level) returns the width and height of the level-th
\* IFD and the color model the destination-variant table gives for the level's
\* photometric, sample format and bits per sample; it returns an error for every
\* combination the table marks as fail.
C21_ConfigLevel ==
    (/\ Done /\ call.op = "DecodeConfigLevel" /\ call.seekable
     /\ ParsesWell /\ in.sf # 0 /\ call.level \in 0..(in.nifd - 1))
    => IF VariantTable(in.photo, in.sf, in.bps) = "fail"
       THEN ret.st \notin {"ok", "panic"}
       ELSE /\ ret.st = "ok"
            /\ ret.config = [ColorModel |-> VariantTable(in.photo, in.sf, in.bps),
                              Width |-> in.W, Height |-> in.H]

\* C26: every flat tile index j*blocksAcross + i the tile loop of
\* DecodeLevelSubImage uses has 0 <= i < blocksAcross, 0 <= j < blocksDown and
\* lies inside both tile tables, for every accepted level and every rectangle.
C26_TileIndexInRange ==
    (pc = "tiles" /\ ValidFile)
    => LET cfg == d.dsc[call.level + 1]
       IN  /\ 0 <= it.i /\ it.i < blocksAcrossOf(cfg)
           /\ 0 <= it.j /\ it.j < blocksDownOf(cfg)
           /\ it.j * blocksAcrossOf(cfg) + it.i
                 < minInt(Len(cfg.TileOffsets), Len(cfg.TileByteCounts))

\* C27: for a level index outside [0, number of IFDs of the chain) DecodeLevel,
\* DecodeLevelSubImage and DecodeConfigLevel return an error value: they never
\* index the list of ImgDesc out of range.
C27_LevelChecked ==
    (/\ Done /\ ParsesWell /\ call.seekable
     /\ call.level \notin 0..(in.nifd - 1))
    => ret.st \notin {"ok", "panic"}

\* the file announces a count of its own for one of the two tile tables
OwnTableCount ==
    in.bad # <<>> /\ in.bad[1] \in {cTileOffsets, cTileByteCounts} /\ in.bad[2] = dtLong

\* C29: the byte length 4 * count of a TileOffsets/TileByteCounts value does not
\* wrap modulo 2^32: parseIFD never reads more elements than the bytes it
\* obtained for the value, divided by 4, whatever the count.
C29_NoLengthWrap ==
    (pc = "parseIFD" /\ OwnTableCount /\ d.dsc = <<>>)
    => LET n   == Uint16(d.bo, ReadAt(d.ra.view, ifdOffset, 2).p)
           ifd == ReadAt(d.ra.view, ifdOffset + 2, ifdLen * n).p
           e   == CHOOSE k \in 0..(n - 1) :
                     Uint16(d.bo, Slice(ifd, ifdLen * k, ifdLen * k + 2)) = in.bad[1]
           t   == TableEntryValues(d.ra.view, d.bo, ifd, ifdLen * e, dtLong,
                                   Uint32(d.bo, Slice(ifd, ifdLen * e + 4, ifdLen * e + 8)))
       IN  4 * t.read <= t.got

\* C30: while it parses one entry parseIFD reads the 12 bytes of that entry
\* only: no tag's handling, BitsPerSample as the last entry included, reads
\* past the end of the IFD buffer.
C30_EntryReadsOwnBytes ==
    in.bpsLast => ~(Done /\ ret.st = "panic" /\ ret.msg = "slice bounds out of range")

\* the bytes of the buffer the loops of decode read up to their last sample:
\* rows of the tile's own width, of which the columns left of the clipped right
\* edge are read
NeededBytes ==
    LET rows == minInt(pure.ymax, pure.rect.y1) - pure.ymin
        cols == minInt(pure.xmax, pure.rect.x1) - pure.xmin
    IN  IF rows <= 0 \/ cols <= 0 THEN 0
        ELSE SampleSize(pure.variant) * ((rows - 1) * (pure.xmax - pure.xmin) + cols)

\* C24: the pixel unpacker never reads the decompressed tile at an index >= its
\* length, for every destination variant, tile position and clipping rectangle;
\* when the buffer holds fewer bytes than the rows and columns being unpacked
\* require, the end-of-row skips included, decode returns errNoPixels.
C24_UnpackInBounds ==
    (pure # Nil /\ pure.fn = "decode" /\ pure.out # Nil)
    => /\ pure.out.res.st # "panic"
       /\ (Len(pure.buf) < NeededBytes)
             <=> (pure.out.res = Err("FormatError", "not enough pixel data"))

\* C24 witness: a 16-bit tile clipped on its right edge, whose buffer holds the
\* first row read but ends inside the second: the skip moved the offset on and
\* decode returned errNoPixels
C24_Witness ==
    /\ pure # Nil /\ pure.fn = "decode" /\ pure.out # Nil
    /\ pure.variant = "GrayU16" /\ pure.xmax > pure.rect.x1
    /\ minInt(pure.ymax, pure.rect.y1) - pure.ymin >= 2
    /\ Len(pure.buf) = NeededBytes - 1
    /\ pure.out.res = Err("FormatError", "not enough pixel data")

\* the sum of the samples of row r (from 0) of the tile up to column x (from 0)
RECURSIVE RowSum(_, _)
RowSum(r, x) ==
    IF x < 0 THEN 0 ELSE pure.samples[r * pure.w + x + 1] + RowSum(r, x - 1)

\* C25: with Predictor = 2 the predictor pass of reader.go's decode replaces, in
\* every row of the tile, each sample by the running sum of the row up to it,
\* modulo 2^8 at 8 bits and 2^16 at 16 bits, read and written in the file's byte
\* order; the first sample of a row is unchanged, no sum crosses a row boundary
\* and the row length is the tile's own width xmax - xmin, not the clipped
\* width of the output.  With another Predictor the buffer is left as it is.
C25_RunningSum ==
    (pure # Nil /\ pure.fn = "predictor" /\ pure.out # Nil)
    => /\ pure.out.res = Ok
       /\ pure.out.buf =
             SampleBytesOf(pure.bo, pure.bpp,
                [k \in 1..(pure.w * pure.h) |->
                    IF pure.pred = prHorizontal
                    THEN RowSum((k - 1) \div pure.w, (k - 1) % pure.w)
                            % (IF pure.bpp = 8 THEN 256 ELSE 65536)
                    ELSE pure.samples[k]])

\* C25 witness: a 16-bit little-endian tile of two rows, clipped by the
\* destination, whose second sample wrapped past 2^16 and whose second row
\* starts again from its own first sample
C25_Witness ==
    /\ pure # Nil /\ pure.fn = "predictor" /\ pure.out # Nil
    /\ pure.pred = prHorizontal /\ pure.bpp = 16 /\ pure.bo = "LE"
    /\ pure.w = 3 /\ pure.h = 2 /\ pure.dstMaxX < pure.xmax
    /\ pure.samples = <<65535, 65535, 255, 255, 255, 65535>>
    /\ pure.out.buf = <<255, 255, 254, 255, 253, 0, 255, 0, 254, 1, 253, 1>>

\* the entries the directory parse has passed to extract
Extracted == {pure.kEntries[k] : k \in 1..pure.n}

\* C22: extract resolves a numeric GeoKey only through the double-params table
\* and an ASCII GeoKey only through the ASCII-params table; a key of these kinds
\* carrying any other tiff_tag_location is reported as an error, so a directory
\* parse that returned normally met none.
C22_TagLocationRequired ==
    (pure # Nil /\ pure.fn = "parseGeoKeyDirectory" /\ pure.st = "ok")
    => \A k \in Extracted :
          /\ k.KeyID \in DoubleKeys => k.TIFFTagLocation = GeoDoubleParamsTag
          /\ k.KeyID \in AsciiKeys => k.TIFFTagLocation = GeoAsciiParamsTag

\* the codes the enumeration table lists for each enumerated GeoKey
ListedCodes(id) ==
    CASE id = 1024 -> {1, 2, 3}
      [] id = 1025 -> {1, 2}
      [] id = 2048 -> {4326}
      [] id = 2050 -> {6326}
      [] id = 2054 -> {9101, 9102}
      [] id = 2056 -> {7030, 7035}
      [] id = 3072 -> {3857, 32601, 32633}
      [] id = 3074 -> {}
      [] id = 3075 -> {1, 11, 24}
      [] id = 3076 -> {9001}

EnumeratedKeys == {1024, 1025, 2048, 2050, 2054, 2056, 3072, 3074, 3075, 3076}

\* C23: for every enumerated GeoKey extract accepts only the codes listed for
\* that key plus 32767; any other code makes extract and the directory parse
\* fail with a FormatError, so a parse that returned normally met only listed
\* codes.
C23_EnumeratedCodesChecked ==
    (pure # Nil /\ pure.fn = "parseGeoKeyDirectory" /\ pure.st = "ok")
    => \A k \in Extracted :
          k.KeyID \in EnumeratedKeys
             => k.ValueOffset \in ListedCodes(k.KeyID) \cup {32767}

\* C28: extract never indexes outside its parameter tables: a numeric key is
\* read only when value_offset < len(dParams), an ASCII key only when
\* value_offset + count, without 16-bit wrap-around, is <= len(aParams), and
\* entries outside these bounds cause no out-of-range access.
C28_ParamsInBounds ==
    (pure # Nil /\ pure.fn = "parseGeoKeyDirectory")
    => /\ pure.st # "panic"
       /\ \A k \in Extracted :
             /\ (k.KeyID \in DoubleKeys /\ pure.gc[FieldOf(k.KeyID)] # 0)
                    => k.ValueOffset < Len(pure.dParams)
             /\ (k.KeyID \in AsciiKeys /\ pure.gc[FieldOf(k.KeyID)] # <<>>)
                    => k.ValueOffset + k.Count <= Len(pure.aParams)

====
